---- MODULE Spec2Model ----
(***************************************************************************)
(* Model of the lane-based endless runner in src/js/game.js: the Game      *)
(* session object, its WorldGenerator and the per-frame update.            *)
(*                                                                         *)
(* Numbers.  The source computes with floating point; the model computes   *)
(* the same expressions exactly, on integers:                              *)
(*   time      in ticks of 10 ms            (TicksPerSec ticks = 1 s)      *)
(*   position  in 1/PosUnit world units     (x, z, distance)               *)
(*   speed     in 1/SpeedUnit world units per second                       *)
(*   a Math.random() result r as the integer 1000 * r, in 0..999           *)
(* With these units every product and quotient of game.js that a frame of  *)
(* a whole number of ticks evaluates is an integer.                        *)
(***************************************************************************)
EXTENDS Integers, Sequences, FiniteSets, TLC

TicksPerSec == 100
PosUnit == 25000
SpeedUnit == 125
RandUnit == 1000

\* ---------------------------------------------------------------- CONSTANTS
ROAD_WIDTH == 18 * PosUnit
LANE_COUNT == 5
LANE_WIDTH == ROAD_WIDTH \div LANE_COUNT
CHUNK_LENGTH == 120 * PosUnit
VISIBLE_CHUNKS == 6
BASE_SPEED == 40 * SpeedUnit
MAX_SPEED == 200 * SpeedUnit
\* 0.8 speed units per second
SPEED_INCREASE_RATE == (8 * SpeedUnit) \div (10 * TicksPerSec)
\* 22 world units per second
STEER_SPEED == (22 * PosUnit) \div TicksPerSec
STEER_LIMIT == (ROAD_WIDTH \div 2) - ((12 * PosUnit) \div 10)
OBSTACLE_INTERVAL_MIN == 18 * PosUnit
OBSTACLE_INTERVAL_MAX == 45 * PosUnit
NEAR_MISS_DISTANCE == (28 * PosUnit) \div 10
COLLISION_DISTANCE == (13 * PosUnit) \div 10

\* literals of Game.update, Game.checkCollisions and WorldGenerator
DeltaCap == (5 * TicksPerSec) \div 100
CollisionDz == 3 * PosUnit
NearMissDz == (25 * PosUnit) \div 10
PadDx == (18 * PosUnit) \div 10
PadDz == 2 * PosUnit
ComboWindow == 2 * TicksPerSec
BoostTime == 3 * TicksPerSec
NearMissBase == 50
PassedMargin == 30 * PosUnit
FirstObstacleZ == -(80 * PosUnit)
PadOffset == 15 * PosUnit
DifficultyScore == 5000
\* position units moved per tick at one speed unit: speed * delta
MoveScale == PosUnit \div (SpeedUnit * TicksPerSec)
\* menu camera: z = -t * 5, looked at from 10 units behind
MenuCamSpeed == (5 * PosUnit) \div TicksPerSec
MenuCamLead == 10 * PosUnit
\* cameraShake is {x: 2, y: 1} * 0.9^k after k decays; x > 0.01 iff k <= 50
ShakeDecays == 51

\* ------------------------------------------------------------------- BOUNDS
\* playing frames are explored while the vehicle is within MaxDist world
\* units of the origin, menu frames while the clock is below MaxMenuT ticks
MaxDist == 100
MaxMenuT == 10
\* start / restart clicks explored per behaviour
MaxClicks == 2
\* the same for the single-session, menu fly-through and long-run explorations
SessionDist == 210
MenuDist == 6
MenuTime == 6000
CruiseDist == 40000
\* sessions per behaviour and distance per session of the high-score runs
MaxSessions == 3
ScoreDist == 130
\* the same for the runs with the reveal timers
TimerSessions == 2
TimerDist == 85
\* distance of the runs steered to both road edges
SteerDist == 60
\* the long session is steered from the speed TunnelSpeed (world units per
\* second) on, for the next TunnelSpan speed units (0.008 units per second)
TunnelSpeed == 121
TunnelSpan == 200

Min(a, b) == IF a < b THEN a ELSE b
Max(a, b) == IF a > b THEN a ELSE b
Abs(a) == IF a < 0 THEN -a ELSE a
\* Math.floor of a / b for b > 0 (\div rounds toward minus infinity)
Floor(a, b) == a \div b

\* ------------------------------------------------------------- Math.random
(* The draws of one iteration of the spawn loop of WorldGenerator.update:  *)
(* lane of the obstacle, second-obstacle test, its z offset and lane,      *)
(* boost-pad test and lane, and the interval factor.  The generator is     *)
(* modelled as a cyclic tape of such draws whose start position (the seed) *)
(* is chosen nondeterministically.                                         *)
Draw(lane, second, off, lane2, pad, padLane, gap) ==
  [lane |-> lane, second |-> second, off |-> off, lane2 |-> lane2,
   pad |-> pad, padLane |-> padLane, gap |-> gap]

Tape ==
  << Draw(500, 999, 500, 500, 100, 900, 0),
     Draw(700, 0, 300, 500, 999, 0, 0),
     Draw(500, 999, 500, 500, 999, 0, 800),
     Draw(100, 999, 500, 500, 999, 0, 800) >>

Seeds == 1..Len(Tape)
NextRng(r) == (r % Len(Tape)) + 1

\* --------------------------------------------------------- WorldGenerator
(* A chunk is identified by its zStart (it spans zStart - CHUNK_LENGTH ..  *)
(* zStart).  world.scene is the set of chunks that are children of the     *)
(* THREE.Scene; an obstacle is [x, z, active], a boost pad [x, z, active,  *)
(* inScene].                                                               *)
NewWorld ==
  [chunks |-> << >>, scene |-> {}, obstacles |-> << >>, boostPads |-> << >>,
   nextObstacleZ |-> FirstObstacleZ, furthestZ |-> 0]

createChunk(w, zStart) ==
  [w EXCEPT !.scene = @ \cup {zStart}, !.chunks = Append(@, zStart)]

LaneX(r) ==
  LET lane == Floor(r * LANE_COUNT, RandUnit)
  IN  -(ROAD_WIDTH \div 2) + (LANE_WIDTH \div 2) + lane * LANE_WIDTH

spawnObstacle(w, r, z) ==
  [w EXCEPT !.obstacles = Append(@, [x |-> LaneX(r), z |-> z, active |-> TRUE])]

spawnBoostPad(w, r, z) ==
  [w EXCEPT !.boostPads =
     Append(@, [x |-> LaneX(r), z |-> z, active |-> TRUE, inScene |-> TRUE])]

\* while (this.furthestZ > playerZ - CHUNK_LENGTH * VISIBLE_CHUNKS)
RECURSIVE GenerateChunks(_, _)
GenerateChunks(w, playerZ) ==
  IF w.furthestZ > playerZ - CHUNK_LENGTH * VISIBLE_CHUNKS
  THEN LET f == w.furthestZ - CHUNK_LENGTH
       IN  GenerateChunks(createChunk([w EXCEPT !.furthestZ = f], f), playerZ)
  ELSE w

\* RemoveOldChunks without the scene.remove() call
RemoveOldChunksKeepScene(w, playerZ) ==
  LET Keep(c) == ~(c > playerZ + CHUNK_LENGTH)
  IN  [w EXCEPT !.chunks = SelectSeq(@, Keep)]

\* backward loop with splice: every chunk with zStart > playerZ + CHUNK_LENGTH
\* leaves the scene and the list, the others keep their order
RemoveOldChunks(w, playerZ) ==
  LET Old(c) == c > playerZ + CHUNK_LENGTH
      Keep(c) == ~Old(c)
  IN  [w EXCEPT !.scene = @ \ {w.chunks[i] : i \in {j \in 1..Len(w.chunks) : Old(w.chunks[j])}},
                !.chunks = SelectSeq(@, Keep)]

\* difficulty = Math.min(score / 5000, 1), kept as the numerator over 5000
Difficulty(score) == Min(score, DifficultyScore)

\* OBSTACLE_INTERVAL_MAX - (OBSTACLE_INTERVAL_MAX - OBSTACLE_INTERVAL_MIN) * difficulty
\* (the difference is a multiple of DifficultyScore position units)
Interval(score) ==
  OBSTACLE_INTERVAL_MAX
    - ((OBSTACLE_INTERVAL_MAX - OBSTACLE_INTERVAL_MIN) \div DifficultyScore)
        * Difficulty(score)

\* Math.random() < difficulty * 0.6
SecondTest(r, score) ==
  r * DifficultyScore * 10 < Difficulty(score) * 6 * RandUnit

\* (Math.random() - 0.5) * 10
SecondOffset(r) == Floor((2 * r - RandUnit) * 10 * PosUnit, 2 * RandUnit)

\* Math.random() < 0.15
PadTest(r) == r * 100 < 15 * RandUnit

\* interval + Math.random() * interval * 0.5
ObstacleStep(r, score) ==
  Interval(score) + Floor(r * Interval(score), 2 * RandUnit)

\* one iteration of the spawn loop, with the draws d
SpawnOnce(w, d, score) ==
  LET z  == w.nextObstacleZ
      w1 == spawnObstacle(w, d.lane, z)
      w2 == IF SecondTest(d.second, score)
            THEN spawnObstacle(w1, d.lane2, z + SecondOffset(d.off))
            ELSE w1
      w3 == IF PadTest(d.pad) THEN spawnBoostPad(w2, d.padLane, z - PadOffset)
            ELSE w2
  IN  [w3 EXCEPT !.nextObstacleZ = z - ObstacleStep(d.gap, score)]

\* while (this.nextObstacleZ > playerZ - CHUNK_LENGTH * (VISIBLE_CHUNKS - 1));
\* wr = [w, rng]
RECURSIVE SpawnObstacles(_, _, _)
SpawnObstacles(wr, playerZ, score) ==
  IF wr.w.nextObstacleZ > playerZ - CHUNK_LENGTH * (VISIBLE_CHUNKS - 1)
  THEN SpawnObstacles([w |-> SpawnOnce(wr.w, Tape[wr.rng], score),
                       rng |-> NextRng(wr.rng)], playerZ, score)
  ELSE wr

\* RemovePassed as a forward loop, for (i = 0; i < length; i++), whose splice
\* makes it skip the entry after each one it removes
RECURSIVE ForwardSplice(_, _, _)
ForwardSplice(list, i, playerZ) ==
  IF i > Len(list) THEN list
  ELSE IF list[i].z > playerZ + PassedMargin
  THEN ForwardSplice(SubSeq(list, 1, i - 1) \o SubSeq(list, i + 1, Len(list)),
                     i + 1, playerZ)
  ELSE ForwardSplice(list, i + 1, playerZ)

RemovePassedForward(list, playerZ) == ForwardSplice(list, 1, playerZ)

\* backward loop with splice over obstacles / boostPads
RemovePassed(list, playerZ) ==
  LET Keep(o) == ~(o.z > playerZ + PassedMargin)
  IN  SelectSeq(list, Keep)

\* WorldGenerator.update(playerZ, score); wr = [w, rng]
WorldUpdate(wr, playerZ, score) ==
  LET w1 == RemoveOldChunks(GenerateChunks(wr.w, playerZ), playerZ)
      s  == SpawnObstacles([w |-> w1, rng |-> wr.rng], playerZ, score)
  IN  [w |-> [s.w EXCEPT !.obstacles = RemovePassed(@, playerZ),
                         !.boostPads = RemovePassed(@, playerZ)],
       rng |-> s.rng]

\* reset() that forgets to empty the obstacle list
WorldResetKeepObstacles(w) ==
  [w EXCEPT !.scene = @ \ {w.chunks[i] : i \in 1..Len(w.chunks)},
            !.chunks = << >>, !.boostPads = << >>,
            !.nextObstacleZ = FirstObstacleZ, !.furthestZ = 0]

\* WorldGenerator.reset()
WorldReset(w) ==
  [w EXCEPT !.scene = @ \ {w.chunks[i] : i \in 1..Len(w.chunks)},
            !.chunks = << >>, !.obstacles = << >>, !.boostPads = << >>,
            !.nextObstacleZ = FirstObstacleZ, !.furthestZ = 0]

\* for (i = 0; i < VISIBLE_CHUNKS + 2; i++) createChunk(-i * CHUNK_LENGTH);
\* world.furthestZ = -(VISIBLE_CHUNKS + 2) * CHUNK_LENGTH
RECURSIVE InitialChunks(_, _)
InitialChunks(w, i) ==
  IF i < VISIBLE_CHUNKS + 2
  THEN InitialChunks(createChunk(w, -(i * CHUNK_LENGTH)), i + 1)
  ELSE [w EXCEPT !.furthestZ = -((VISIBLE_CHUNKS + 2) * CHUNK_LENGTH)]

\* -------------------------------------------------------------------- Game
VARIABLES
  state,        \* this.state: "menu", "playing", "gameover"
  score, distance, speed, boostTimer, comboCount, comboTimer,
  cameraShake,  \* NoShake for {x: 0, y: 0}, else the number k of decays
                \* since gameOver() set {x: 2, y: 1}: x = 2 * 0.9^k
  highScore,
  stored,       \* localStorage item 'neonrush_highscore', Absent if none
  vehicle,      \* this.vehicle.position: [x, z]
  world,        \* this.world (chunks, obstacles, boostPads, ...)
  rng,          \* position of Math.random on the tape
  menuT,        \* this.clock elapsed time in ticks, as the menu reads it
  clicks,       \* start / restart clicks so far (bounded exploration)
  last,         \* history: the last operation and the session state before it
  hits,         \* history: collision / near-miss events of the last frame
  streak, sinceNM, \* history: near-misses in a row, ticks since the last one
  best,         \* history: the largest of the loaded high score and the
                \* scores the finished sessions ended with
  steps,        \* history: the components the last frame advanced, in order
  picks,        \* history: boost-pad pickups of the last frame
  earned,       \* history: near-miss points awarded in the session so far
  timers,       \* pending setTimeout callbacks of gameOver(), oldest first
  audio,        \* this.audio: the AudioManager
  atimers,      \* pending setTimeout callbacks of stopEngine(), oldest first
  ui            \* style.display of the screens and the game-over texts

vars == << state, score, distance, speed, boostTimer, comboCount, comboTimer,
           cameraShake, highScore, stored, vehicle, world, rng, menuT,
           clicks, last, hits, streak, sinceNM, best, steps,
           picks, earned, timers, audio, atimers, ui >>

NoShake == -1
Absent == -1
\* steering input in tenths: -SteerUnit .. SteerUnit is -1 .. 1
SteerUnit == 10

\* the fields of the Game object that a frame reads and writes
G == [state |-> state, score |-> score, distance |-> distance, speed |-> speed,
      boostTimer |-> boostTimer, comboCount |-> comboCount,
      comboTimer |-> comboTimer, cameraShake |-> cameraShake,
      highScore |-> highScore, stored |-> stored, vehicle |-> vehicle,
      world |-> world, rng |-> rng, hits |-> << >>, steps |-> << >>,
      picks |-> << >>, timers |-> timers, audio |-> audio,
      atimers |-> atimers]

\* the log of components of a frame: a component that runs on is logged once
Log(s, c) == IF Len(s) > 0 /\ s[Len(s)] = c THEN s ELSE Append(s, c)

\* ------------------------------------------------------------ AudioManager
(* The engine node set and the wind node made by the n-th startEngine()    *)
(* call are both named n; engineNodes and windNode hold such a name or      *)
(* NoNodes for null.  engineOn and windOn are the names whose sources have  *)
(* been started and not stopped.  available says whether the browser has    *)
(* an AudioContext.                                                         *)
NoNodes == 0

NewAudio(available) ==
  [available |-> available, initialized |-> FALSE,
   engineNodes |-> NoNodes, windNode |-> NoNodes,
   engineOn |-> {}, windOn |-> {}, made |-> 0]

\* AudioManager.init(): the constructor of AudioContext throws if there is none
AudioInit(a) ==
  IF a.initialized \/ ~a.available THEN a ELSE [a EXCEPT !.initialized = TRUE]

\* AudioManager.startEngine()
startEngine(a) ==
  IF ~a.initialized THEN a
  ELSE LET n == a.made + 1
       IN  [a EXCEPT !.made = n,
                     !.engineNodes = n, !.engineOn = @ \cup {n},
                     !.windNode = n, !.windOn = @ \cup {n}]

\* AudioManager.stopEngine(): the callbacks it passes to setTimeout(..., 400);
\* of is the node that was current when the callback was scheduled
stopEngine(a) ==
  (IF a.engineNodes # NoNodes
   THEN << [kind |-> "engine", of |-> a.engineNodes] >> ELSE << >>)
  \o (IF a.windNode # NoNodes
      THEN << [kind |-> "wind", of |-> a.windNode] >> ELSE << >>)

\* the callbacks of stopEngine(): stop the sources of this.engineNodes (of
\* this.windNode) as it is when the callback runs, a failure being caught,
\* and set it to null
Teardown(a, t) ==
  IF t.kind = "engine"
  THEN [a EXCEPT !.engineOn = @ \ {a.engineNodes}, !.engineNodes = NoNodes]
  ELSE [a EXCEPT !.windOn = @ \ {a.windNode}, !.windNode = NoNodes]

\* the localStorage.setItem call of gameOver(), as an event of the frame
SetItem(g) == [kind |-> "setItem", i |-> 0, dx |-> 0, dz |-> 0, k |-> 0,
               before |-> g.highScore, after |-> g.score]

\* gameOver() that records the score of every finished session
gameOverAlwaysRecord(g) ==
  [g EXCEPT !.state = "gameover",
            !.cameraShake = 0,
            !.highScore = g.score,
            !.stored = g.score,
            !.hits = Append(@, SetItem(g)),
            !.atimers = @ \o stopEngine(g.audio),
            !.timers = Append(@, [isNewRecord |-> TRUE])]

\* Game.gameOver(): state, screen shake, high score and its persistence
gameOver(g) ==
  LET isNewRecord == g.score > g.highScore
  IN  [g EXCEPT !.state = "gameover",
                !.cameraShake = 0,
                !.highScore = IF isNewRecord THEN g.score ELSE @,
                !.stored = IF isNewRecord THEN g.score ELSE @,
                !.hits = IF isNewRecord THEN Append(@, SetItem(g)) ELSE @,
                !.atimers = @ \o stopEngine(g.audio),
                !.timers = Append(@, [isNewRecord |-> isNewRecord])]

\* squared length, in coarser units and saturated to stay within 32 bits
Sq(a) == LET b == Min(a \div 100, 30000) IN b * b

\* the collision test on the Euclidean distance instead of the two axes
IsCollisionEuclid(dx, dz) == Sq(dx) + Sq(dz) < Sq(COLLISION_DISTANCE)

\* dx < COLLISION_DISTANCE && dz < 3.0
IsCollision(dx, dz) == dx < COLLISION_DISTANCE /\ dz < CollisionDz

\* dx < NEAR_MISS_DISTANCE && dx > COLLISION_DISTANCE && dz < 2.5
IsNearMiss(dx, dz) ==
  dx < NEAR_MISS_DISTANCE /\ dx > COLLISION_DISTANCE /\ dz < NearMissDz

\* dx < 1.8 && dz < 2.0
IsPickup(dx, dz) == dx < PadDx /\ dz < PadDz

\* NearMiss awarding the bonus before it counts the combo up
NearMissStaleCombo(g, i, dx, dz) ==
  LET k == g.comboCount + 1
  IN  [g EXCEPT !.world.obstacles[i].active = FALSE,
                !.comboCount = k,
                !.comboTimer = ComboWindow,
                !.score = @ + NearMissBase * g.comboCount,
                !.hits = Append(@, [kind |-> "nearmiss", i |-> i, dx |-> dx,
                                    dz |-> dz, k |-> k, before |-> g.score,
                                    after |-> g.score + NearMissBase * g.comboCount])]

\* the near-miss branch of checkCollisions for obstacle i
NearMiss(g, i, dx, dz) ==
  LET k == g.comboCount + 1
  IN  [g EXCEPT !.world.obstacles[i].active = FALSE,
                !.comboCount = k,
                !.comboTimer = ComboWindow,
                !.score = @ + NearMissBase * k,
                !.hits = Append(@, [kind |-> "nearmiss", i |-> i, dx |-> dx,
                                    dz |-> dz, k |-> k, before |-> g.score,
                                    after |-> g.score + NearMissBase * k])]

\* an active test that lets every entity through
SkipsNone(entity) == FALSE

\* if (!obs.userData.active) continue;  if (!pad.userData.active) continue;
Skips(entity) == ~entity.active

\* for (const obs of this.world.obstacles): the result says whether the loop
\* returned from checkCollisions (collision) or ran to its end
RECURSIVE CheckObstacles(_, _)
CheckObstacles(g, i) ==
  IF i > Len(g.world.obstacles) THEN [g |-> g, returned |-> FALSE]
  ELSE LET obs == g.world.obstacles[i]
           dx  == Abs(g.vehicle.x - obs.x)
           dz  == Abs(g.vehicle.z - obs.z)
       IN  IF Skips(obs) THEN CheckObstacles(g, i + 1)
           ELSE IF IsCollision(dx, dz)
           THEN [g |-> [gameOver(g) EXCEPT !.hits =
                          Append(@, [kind |-> "collision", i |-> i, dx |-> dx,
                                     dz |-> dz, k |-> 0, before |-> g.score,
                                     after |-> g.score])],
                 returned |-> TRUE]
           ELSE IF IsNearMiss(dx, dz)
           THEN CheckObstacles(NearMiss(g, i, dx, dz), i + 1)
           ELSE CheckObstacles(g, i + 1)

\* for (const pad of this.world.boostPads)
RECURSIVE CheckPads(_, _)
CheckPads(g, i) ==
  IF i > Len(g.world.boostPads) THEN g
  ELSE LET pad == g.world.boostPads[i]
           dx  == Abs(g.vehicle.x - pad.x)
           dz  == Abs(g.vehicle.z - pad.z)
       IN  IF ~Skips(pad) /\ IsPickup(dx, dz)
           THEN CheckPads([g EXCEPT !.world.boostPads[i].active = FALSE,
                                    !.world.boostPads[i].inScene = FALSE,
                                    !.boostTimer = BoostTime,
                                    !.picks = Append(@, [i |-> i, dx |-> dx,
                                                         dz |-> dz])], i + 1)
           ELSE CheckPads(g, i + 1)

\* Game.checkCollisions()
checkCollisions(g) ==
  LET r == CheckObstacles(g, 1)
  IN  IF r.returned THEN r.g ELSE CheckPads(r.g, 1)

\* the frame time used as it comes from the clock
CapDeltaNone(delta) == delta

\* delta = Math.min(delta, 0.05)
CapDelta(delta) == Min(delta, DeltaCap)

\* NextSpeed without the Math.min clamp
NextSpeedNoClamp(sp, delta) == sp + SPEED_INCREASE_RATE * delta

\* this.speed = Math.min(this.speed + SPEED_INCREASE_RATE * delta, MAX_SPEED)
NextSpeed(sp, delta) == Min(sp + SPEED_INCREASE_RATE * delta, MAX_SPEED)

\* moveDistance = currentSpeed * delta, currentSpeed = speed or speed * 1.5
MoveDistance(sp, boosted, delta) ==
  IF boosted THEN (3 * sp * delta * MoveScale) \div 2
  ELSE sp * delta * MoveScale

\* Steer without the clamp
SteerNoClamp(x, steerInput, delta) ==
  x + (steerInput * STEER_SPEED * delta) \div SteerUnit

\* x += steerInput * STEER_SPEED * delta, clamped to +-STEER_LIMIT
Steer(x, steerInput, delta) ==
  Max(-STEER_LIMIT,
      Min(STEER_LIMIT, x + (steerInput * STEER_SPEED * delta) \div SteerUnit))

\* ComboTick that lets the timer run out without clearing the counter
ComboTickNoReset(g, delta) ==
  IF g.comboTimer > 0 THEN [g EXCEPT !.comboTimer = @ - delta] ELSE g

\* the combo timer block of Game.update
ComboTick(g, delta) ==
  IF g.comboTimer > 0
  THEN LET t == g.comboTimer - delta
       IN  [g EXCEPT !.comboTimer = t,
                     !.comboCount = IF t <= 0 THEN 0 ELSE @]
  ELSE g

\* crash shake decay: if (cameraShake.x > 0.01) cameraShake *= 0.9
ShakeDecay(k) == IF k # NoShake /\ k < ShakeDecays THEN k + 1 ELSE k

\* a guard that stops the simulation in the menu only
SimulatesOutsideMenu(st) == st # "menu"

\* if (this.state !== 'playing') return;
Simulates(st) == st = "playing"

\* Game.update(delta), with steerInput = this.controls.getSteerInput()
Update(g, delta0, steerInput) ==
  IF ~Simulates(g.state) THEN g
  ELSE
    LET delta   == CapDelta(delta0)
        sp      == NextSpeed(g.speed, delta)
        boosted == g.boostTimer > 0
        move    == MoveDistance(sp, boosted, delta)
        dist    == g.distance + move
        \* speed, boost and forward move, then getSteerInput(), then x
        g1 == [g EXCEPT !.speed = sp,
                        !.boostTimer = IF boosted THEN @ - delta ELSE @,
                        !.vehicle.z = @ - move,
                        !.distance = dist,
                        !.score = Floor(dist, PosUnit),
                        !.vehicle.x = Steer(@, steerInput, delta),
                        !.steps = Log(Log(Log(@, "kinematics"), "input"),
                                      "kinematics")]
        g2 == [checkCollisions(ComboTick(g1, delta))
                 EXCEPT !.steps = Log(@, "collision")]
        \* camera follow, speed shake, crash shake decay, FOV, blur, bloom
        g3 == [g2 EXCEPT !.cameraShake = ShakeDecay(@),
                         !.steps = Log(@, "cameraFX")]
        \* world.update: chunks, then obstacles; then particles, audio, HUD
        wr == WorldUpdate([w |-> g3.world, rng |-> g3.rng],
                          g3.vehicle.z, g3.score)
    IN  [g3 EXCEPT !.world = wr.w, !.rng = wr.rng,
                   !.steps = Log(Log(Log(@, "streaming"), "spawn"),
                                 "presentation")]

\* the playerZ of the menu branch of animate(): camera.position.z - 10
MenuPlayerZ(t) == -(t * MenuCamSpeed) - MenuCamLead

\* ----------------------------------------------------------- specification
\* frame times (ticks) and steering inputs (tenths) a frame is explored with
DeltaSet == {DeltaCap, 2 * TicksPerSec}
SteerSet == {0, SteerUnit}
SessionDeltas == {0, DeltaCap, 2 * TicksPerSec}
MenuDeltas == {DeltaCap, 10 * TicksPerSec, 30 * TicksPerSec}
CruiseDeltas == {DeltaCap}
CruiseSteer == {SteerUnit}
\* full left, a light left touch, none, full right
SteerAll == {-SteerUnit, -3, 0, SteerUnit}
TunnelDeltas == {DeltaCap}
TunnelSteer == {-SteerUnit, 0}
StoredSet == {Absent}
\* browsers with an AudioContext; with and without
AudioSet == {TRUE}
AudioAny == {TRUE, FALSE}
\* stored high scores of earlier visits: none, below, at and above the score
\* a session of the exploration can end with
LoadedSet == {Absent, 60, 77, 90, 500}
ScoreDeltas == {DeltaCap}

\* new Game(): the fields, the initial chunks, and the first animate() call,
\* which runs the menu branch with the clock at 0
\* an element whose display game.js has not set yet shows as its stylesheet
\* says ("css"); a text game.js has not set yet is NoText
NoText == -1

\* the menu branch of animate(): camera, world.update, particles, render
MenuSteps == << "cameraFX", "streaming", "spawn", "presentation" >>

Construct(storedValues, audioValues) ==
  /\ state = "menu"
  /\ score = 0 /\ distance = 0 /\ speed = BASE_SPEED
  /\ boostTimer = 0 /\ comboCount = 0 /\ comboTimer = 0
  /\ cameraShake = NoShake
  /\ stored \in storedValues
  /\ highScore = (IF stored = Absent THEN 0 ELSE stored)
  /\ best = (IF stored = Absent THEN 0 ELSE stored)
  /\ vehicle = [x |-> 0, z |-> 0]
  /\ \E seed \in Seeds :
       LET wr == WorldUpdate([w |-> InitialChunks(NewWorld, 0), rng |-> seed],
                             MenuPlayerZ(0), 0)
       IN  world = wr.w /\ rng = wr.rng
  /\ menuT = 0
  /\ clicks = 0
  /\ last = [op |-> "init", from |-> "menu", changed |-> FALSE]
  /\ hits = << >>
  /\ streak = 0 /\ sinceNM = ComboWindow
  /\ steps = MenuSteps
  /\ picks = << >> /\ earned = 0
  /\ timers = << >>
  /\ \E available \in audioValues : audio = NewAudio(available)
  /\ atimers = << >>
  /\ ui = [startScreen |-> "css", hud |-> "css", gameOverEl |-> "css",
           newRecordEl |-> "css", finalScore |-> NoText, bestScore |-> NoText]

Init == Construct(StoredSet, AudioSet)

\* the session reset shared by startGame() and restartGame()
ResetSession ==
  /\ state' = "playing"
  /\ score' = 0 /\ distance' = 0 /\ speed' = BASE_SPEED
  /\ boostTimer' = 0 /\ comboCount' = 0 /\ comboTimer' = 0
  /\ vehicle' = [x |-> 0, z |-> 0]
  /\ menuT' = 0                        \* this.clock.start()
  /\ hits' = << >> /\ streak' = 0 /\ sinceNM' = ComboWindow
  /\ steps' = << >> /\ picks' = << >> /\ earned' = 0

\* Game.startGame(), the click handler of #startBtn
StartGame ==
  /\ clicks' = clicks + 1
  /\ ResetSession
  /\ last' = [op |-> "start", from |-> state, changed |-> FALSE]
  /\ ui' = [ui EXCEPT !.startScreen = "none", !.hud = "block",
                      !.gameOverEl = "none"]
  /\ audio' = startEngine(AudioInit(audio))
  /\ UNCHANGED << cameraShake, highScore, stored, world, rng, best, timers,
                  atimers >>

\* Game.restartGame(), the click handler of #restartBtn
RestartGame ==
  /\ clicks' = clicks + 1
  /\ world' = InitialChunks(WorldReset(world), 0)
  /\ ResetSession
  /\ last' = [op |-> "restart", from |-> state, changed |-> FALSE]
  /\ ui' = [ui EXCEPT !.gameOverEl = "none", !.hud = "block"]
  /\ audio' = startEngine(AudioInit(audio))
  /\ UNCHANGED << cameraShake, highScore, stored, rng, best, timers, atimers >>

\* the points the near-misses of a frame added to the score
RECURSIVE Awarded(_, _)
Awarded(h, a) ==
  IF a > Len(h) THEN 0
  ELSE (IF h[a].kind = "nearmiss" THEN h[a].after - h[a].before ELSE 0)
       + Awarded(h, a + 1)

NearMissCount(h) == Cardinality({i \in 1..Len(h) : h[i].kind = "nearmiss"})

\* Game.animate(): one display frame with clock delta dt and steering input st
FrameTo(g1, wr, t1, since, base, nm) ==
  /\ state' = g1.state
  /\ score' = g1.score /\ distance' = g1.distance /\ speed' = g1.speed
  /\ boostTimer' = g1.boostTimer
  /\ comboCount' = g1.comboCount /\ comboTimer' = g1.comboTimer
  /\ cameraShake' = g1.cameraShake
  /\ highScore' = g1.highScore /\ stored' = g1.stored
  /\ vehicle' = g1.vehicle
  /\ world' = wr.w /\ rng' = wr.rng
  /\ menuT' = t1
  /\ hits' = g1.hits /\ picks' = g1.picks
  /\ earned' = earned + Awarded(g1.hits, 1)
  /\ steps' = (IF g1.state = "menu" THEN MenuSteps
               ELSE Log(g1.steps, "presentation"))   \* this.composer.render()
  /\ streak' = base + nm
  /\ sinceNM' = (IF nm > 0 THEN 0 ELSE since)
  /\ last' = [op |-> "frame", from |-> state, changed |-> wr.w # world]
  /\ best' = (IF state = "playing" /\ g1.state = "gameover"
              THEN Max(best, g1.score) ELSE best)
  /\ timers' = g1.timers /\ atimers' = g1.atimers
  /\ UNCHANGED << clicks, ui, audio >>

Frame(dt, st) ==
  \E g1 \in {Update(G, dt, st)} :
    \E t1 \in {IF state = "menu" THEN menuT + dt ELSE menuT} :
      \E wr \in {IF g1.state = "menu"
                 THEN WorldUpdate([w |-> g1.world, rng |-> g1.rng],
                                  MenuPlayerZ(t1), 0)
                 ELSE [w |-> g1.world, rng |-> g1.rng]} :
        LET nm    == NearMissCount(g1.hits)
            since == IF state = "playing"
                     THEN Min(sinceNM + Min(dt, DeltaCap), ComboWindow)
                     ELSE sinceNM
            base  == IF since >= ComboWindow THEN 0 ELSE streak
        IN  FrameTo(g1, wr, t1, since, base, nm)

Animate(deltas, steers, maxDist, maxMenuT) ==
  \E dt \in deltas, st \in steers :
    /\ state = "playing" => -vehicle.z < maxDist * PosUnit
    /\ state = "menu" => menuT + dt <= maxMenuT
    /\ Frame(dt, st)

\* a reveal that is dropped when the session is no longer in game-over
RevealIfGameOver ==
  /\ Len(timers) > 0
  /\ timers' = Tail(timers)
  /\ ui' = (IF state = "gameover"
            THEN [ui EXCEPT !.hud = "none", !.gameOverEl = "flex",
                            !.finalScore = score, !.bestScore = highScore,
                            !.newRecordEl = IF Head(timers).isNewRecord
                                            THEN "block" ELSE "none"]
            ELSE ui)
  /\ last' = [op |-> "reveal", from |-> state, changed |-> FALSE]
  /\ UNCHANGED << state, score, distance, speed, boostTimer, comboCount,
                  comboTimer, cameraShake, highScore, stored, vehicle, world,
                  rng, menuT, clicks, hits, streak, sinceNM, best, steps, picks,
                  earned, audio, atimers >>

\* the callback gameOver() passed to setTimeout(..., 600).  The time that
\* passes between two events of the page is an input (a frame's clock delta
\* is chosen freely), so the callback can run between any two events that
\* follow its scheduling.
Reveal ==
  /\ Len(timers) > 0
  /\ timers' = Tail(timers)
  /\ ui' = [ui EXCEPT !.hud = "none", !.gameOverEl = "flex",
                      !.finalScore = score, !.bestScore = highScore,
                      !.newRecordEl = IF Head(timers).isNewRecord
                                      THEN "block" ELSE "none"]
  /\ last' = [op |-> "reveal", from |-> state, changed |-> FALSE]
  /\ UNCHANGED << state, score, distance, speed, boostTimer, comboCount,
                  comboTimer, cameraShake, highScore, stored, vehicle, world,
                  rng, menuT, clicks, hits, streak, sinceNM, best, steps, picks,
                  earned, audio, atimers >>

\* the oldest pending callback of stopEngine() runs; as for Reveal, the
\* delay is not constrained
AudioTimeout ==
  /\ Len(atimers) > 0
  /\ atimers' = Tail(atimers)
  /\ audio' = Teardown(audio, Head(atimers))
  /\ last' = [op |-> "teardown", from |-> state, changed |-> FALSE]
  /\ UNCHANGED << state, score, distance, speed, boostTimer, comboCount,
                  comboTimer, cameraShake, highScore, stored, vehicle, world,
                  rng, menuT, clicks, hits, streak, sinceNM, best, steps, picks,
                  earned, timers, ui >>

\* clicks arrive in any session state, at most MaxClicks of them
ClickStart == clicks < MaxClicks /\ StartGame
ClickRestart == clicks < MaxClicks /\ RestartGame
Tick == Animate(DeltaSet, SteerSet, MaxDist, MaxMenuT)

Next == ClickStart \/ ClickRestart \/ Tick

Spec == Init /\ [][Next]_vars

\* one session: the start button is pressed once, in the menu
MenuStart == state = "menu" /\ StartGame
SessionTick == Animate(SessionDeltas, SteerSet, SessionDist, MaxMenuT)
NextSession == MenuStart \/ SessionTick
SpecSession == Init /\ [][NextSession]_vars

\* the menu fly-through with long frames, then the start of a session
MenuTick == Animate(MenuDeltas, {0}, MenuDist, MenuTime)
NextMenu == MenuStart \/ MenuTick
SpecMenu == Init /\ [][NextMenu]_vars

\* one long session held against the right road edge
CruiseTick == Animate(CruiseDeltas, CruiseSteer, CruiseDist, 0)
NextCruise == MenuStart \/ CruiseTick
SpecCruise == Init /\ [][NextCruise]_vars

\* several sessions in a row, each restarted from its game-over, after
\* earlier visits that left a high score in the store
InitScores == Construct(LoadedSet, AudioSet)
OverRestart == state = "gameover" /\ clicks < MaxSessions /\ RestartGame
ScoreTick == Animate(ScoreDeltas, SteerSet, ScoreDist, 0)
NextScores == MenuStart \/ OverRestart \/ ScoreTick
SpecScores == InitScores /\ [][NextScores]_vars

\* one session steered to both road edges
SteerTick == Animate(DeltaSet, SteerAll, SteerDist, 0)
NextSteer == MenuStart \/ SteerTick
SpecSteer == Init /\ [][NextSteer]_vars

\* one long session: held against the right road edge until the speed is
\* TunnelSpeed, then steered left across the lanes or not at all, while the
\* speed gains TunnelSpan
TunnelTick ==
  /\ speed < TunnelSpeed * SpeedUnit + TunnelSpan
  /\ IF speed < TunnelSpeed * SpeedUnit
     THEN Animate(CruiseDeltas, CruiseSteer, CruiseDist, 0)
     ELSE Animate(TunnelDeltas, TunnelSteer, CruiseDist, 0)
NextTunnel == MenuStart \/ TunnelTick
SpecTunnel == Init /\ [][NextTunnel]_vars

\* sessions restarted from game-over, with the reveal timers of gameOver();
\* a pending timer callback is eventually run by the browser
TimerRestart == state = "gameover" /\ clicks < TimerSessions /\ RestartGame
TimerTick == Animate(DeltaSet, SteerSet, TimerDist, 0)
NextTimers == MenuStart \/ TimerRestart \/ TimerTick \/ Reveal
SpecTimers == Init /\ [][NextTimers]_vars /\ WF_vars(Reveal)

\* sessions restarted from game-over, with the teardown timers of
\* stopEngine(), in browsers with and without an AudioContext
InitAudio == Construct(StoredSet, AudioAny)
NextAudio == MenuStart \/ TimerRestart \/ TimerTick \/ AudioTimeout
SpecAudio == InitAudio /\ [][NextAudio]_vars

\* ------------------------------------------------------------------ claims
ChunkList == world.chunks
ChunkSet == {ChunkList[i] : i \in 1..Len(ChunkList)}
\* the state is the one a call of WorldGenerator.update left, and the
\* arguments of that call
AfterUpdate ==
  last.op = "init" \/ (last.op = "frame" /\ last.from \in {"menu", "playing"})
UpdZ == IF last.from = "menu" THEN MenuPlayerZ(menuT) ELSE vehicle.z
UpdScore == IF last.from = "menu" THEN 0 ELSE score

\* chunk spans near the reference position, as multiples k of CHUNK_LENGTH:
\* span k is (k - 1) * CHUNK_LENGTH .. k * CHUNK_LENGTH
NearSpans ==
  (Floor(UpdZ, CHUNK_LENGTH) - VISIBLE_CHUNKS - 1) .. (Floor(UpdZ, CHUNK_LENGTH) + 2)
SpanVisible(k) ==
  /\ k * CHUNK_LENGTH > UpdZ - VISIBLE_CHUNKS * CHUNK_LENGTH
  /\ (k - 1) * CHUNK_LENGTH < UpdZ
LiveChunksAt(k) ==
  Cardinality({i \in 1..Len(ChunkList) : ChunkList[i] = k * CHUNK_LENGTH})

\* C1: after every WorldGenerator.update(playerZ), every chunk span that
\* intersects the visible range playerZ - VISIBLE_CHUNKS * CHUNK_LENGTH ..
\* playerZ is covered by exactly one live chunk.
C1_VisibleSpansCoveredOnce ==
  AfterUpdate => \A k \in NearSpans : SpanVisible(k) => LiveChunksAt(k) = 1

\* C2: after every WorldGenerator.update(playerZ) no live chunk has
\* zStart > playerZ + CHUNK_LENGTH, and the chunks in the scene are exactly
\* the chunks in the list (a chunk dropped from the list left the scene in
\* the same step).
C2_OldChunksReleased ==
  /\ AfterUpdate => \A i \in 1..Len(ChunkList) : ChunkList[i] <= UpdZ + CHUNK_LENGTH
  /\ world.scene = ChunkSet

\* an update has dropped the chunk the session started on
C2_Witness ==
  /\ last.op = "frame" /\ last.changed
  /\ 0 \notin ChunkSet /\ Len(ChunkList) > 0

\* C3: a second WorldGenerator.update with the same playerZ and score
\* changes nothing: no chunk, obstacle or boost pad is created or removed,
\* furthestZ and nextObstacleZ stay, and no random number is drawn.
C3_UpdateIdempotent ==
  AfterUpdate =>
    WorldUpdate([w |-> world, rng |-> rng], UpdZ, UpdScore) = [w |-> world, rng |-> rng]

\* the first update did create or remove something
C3_Witness == last.op = "frame" /\ last.changed /\ Len(world.obstacles) > 0

\* C4: in every reachable state BASE_SPEED <= speed <= MAX_SPEED.
C4_SpeedWithinBounds == BASE_SPEED <= speed /\ speed <= MAX_SPEED

\* the speed has reached the ceiling while a boost is running
C4_Witness == state = "playing" /\ speed = MAX_SPEED /\ boostTimer > 0

\* C5: for each active obstacle a frame raises a collision, a near-miss or
\* neither, never both; a collision is raised exactly inside the rectangle
\* dx < COLLISION_DISTANCE, dz < 3.0 and a near-miss exactly inside
\* COLLISION_DISTANCE < dx < NEAR_MISS_DISTANCE, dz < 2.5, each axis on its
\* own: an obstacle that stays active after the frame is in neither rectangle.
C5_ZonesExclusive ==
  /\ \A a, b \in 1..Len(hits) : hits[a].i = hits[b].i => a = b
  /\ \A a \in 1..Len(hits) :
       /\ hits[a].kind = "collision" =>
            hits[a].dx < COLLISION_DISTANCE /\ hits[a].dz < CollisionDz
       /\ hits[a].kind = "nearmiss" =>
            /\ hits[a].dx > COLLISION_DISTANCE /\ hits[a].dx < NEAR_MISS_DISTANCE
            /\ hits[a].dz < NearMissDz
  /\ (last.op = "frame" /\ last.from = "playing" /\ state = "playing") =>
       \A i \in 1..Len(world.obstacles) :
         LET o  == world.obstacles[i]
             dx == Abs(vehicle.x - o.x)
             dz == Abs(vehicle.z - o.z)
         IN  o.active =>
               /\ ~(dx < COLLISION_DISTANCE /\ dz < CollisionDz)
               /\ ~(dx > COLLISION_DISTANCE /\ dx < NEAR_MISS_DISTANCE /\ dz < NearMissDz)

\* a frame raised a near-miss and then a collision, the collision for an
\* obstacle whose Euclidean distance is beyond COLLISION_DISTANCE
C5_Witness ==
  /\ state = "gameover"
  /\ \E a \in 1..Len(hits) :
       /\ hits[a].kind = "collision"
       /\ Sq(hits[a].dx) + Sq(hits[a].dz) > Sq(COLLISION_DISTANCE)
  /\ \E a \in 1..Len(hits) : hits[a].kind = "nearmiss"

NearMissesFrom(a) ==
  Cardinality({b \in a..Len(hits) : hits[b].kind = "nearmiss"})

\* C6: the k-th near-miss in a row of a session, each less than the 2.0 s
\* combo window (of clamped frame time) after the one before, has combo
\* multiplier k and raises the score by 50 * k; the combo counter is the
\* length of that row.
C6_ComboMultiplier ==
  /\ comboCount = streak
  /\ \A a \in 1..Len(hits) :
       hits[a].kind = "nearmiss" =>
         /\ hits[a].k = streak - NearMissesFrom(a) + 1
         /\ hits[a].after - hits[a].before = NearMissBase * hits[a].k

\* the third near-miss in a row: multiplier 3, 150 points
C6_Witness ==
  /\ streak = 3
  /\ \E a \in 1..Len(hits) :
       /\ hits[a].kind = "nearmiss" /\ hits[a].k = 3
       /\ hits[a].after - hits[a].before = 150

StartingChunks == [i \in 1..(VISIBLE_CHUNKS + 2) |-> -((i - 1) * CHUNK_LENGTH)]

\* C7: right after restartGame() the obstacle and boost-pad lists are empty,
\* the live chunks are the VISIBLE_CHUNKS + 2 starting chunks at 0,
\* -CHUNK_LENGTH, ..., the speed is BASE_SPEED, the vehicle is at the origin
\* and score, distance, boost timer and combo are zero.
C7_RestartResets ==
  last.op = "restart" =>
    /\ state = "playing"
    /\ world.obstacles = << >> /\ world.boostPads = << >>
    /\ ChunkList = StartingChunks
    /\ world.scene = {StartingChunks[i] : i \in 1..(VISIBLE_CHUNKS + 2)}
    /\ speed = BASE_SPEED
    /\ vehicle = [x |-> 0, z |-> 0]
    /\ score = 0 /\ distance = 0 /\ boostTimer = 0
    /\ comboCount = 0 /\ comboTimer = 0

\* restartGame() ran in the game-over state a collision left
C7_Witness ==
  last.op = "restart" /\ last.from = "gameover" /\ cameraShake # NoShake

\* frame times above the cap
OverCap == {DeltaCap + 1, 2 * DeltaCap, 2 * TicksPerSec, 60 * TicksPerSec}

\* C8: a playing frame with a frame time above the 0.05 s cap leaves the
\* same state (position, distance, speed, boost timer, combo timer and the
\* rest) as a frame of exactly 0.05 s from the same state.
C8_LongFrameIsCappedFrame ==
  state = "playing" =>
    \A dt \in OverCap, st \in SteerSet :
      Update(G, dt, st) = Update(G, DeltaCap, st)

\* a session in which the boost timer and the combo timer are both running
C8_Witness ==
  state = "playing" /\ last.op = "frame" /\ boostTimer > 0 /\ comboTimer > 0

Collided(h) == \E a \in 1..Len(h) : h[a].kind = "collision"

\* C9: the session state changes only menu -> playing by a start click,
\* playing -> gameover by a collision in a frame, gameover -> playing by a
\* restart click; a start or restart click in any other state changes
\* neither the session state nor score, distance, speed or vehicle position.
C9_OnlyThreeTransitions ==
  [][ /\ state' # state =>
           \/ state = "menu" /\ state' = "playing" /\ last'.op = "start"
           \/ state = "playing" /\ state' = "gameover"
                /\ last'.op = "frame" /\ Collided(hits')
           \/ state = "gameover" /\ state' = "playing" /\ last'.op = "restart"
      /\ (clicks' # clicks /\ last'.op = "start" /\ state # "menu") =>
           UNCHANGED << state, score, distance, speed, vehicle >>
      /\ (clicks' # clicks /\ last'.op = "restart" /\ state # "gameover") =>
           UNCHANGED << state, score, distance, speed, vehicle >>
    ]_vars

\* C10: a frame in the menu or game-over state leaves vehicle position,
\* speed, distance, score, boost timer, combo counter and combo timer as they
\* were; in game-over it also leaves the chunks, obstacles and pads.
C10_IdleFrameFreezesSimulation ==
  [][ (clicks' = clicks /\ state \in {"menu", "gameover"}) =>
        /\ UNCHANGED << vehicle, speed, distance, score, boostTimer,
                        comboCount, comboTimer >>
        /\ state = "gameover" => UNCHANGED world
    ]_vars

\* a frame ran in the game-over state, with a combo cut short by the crash
C10_Witness ==
  /\ last.op = "frame" /\ last.from = "gameover"
  /\ comboCount > 0 /\ comboTimer > 0

StoredNumber == IF stored = Absent THEN 0 ELSE stored
SetItems(h) == {a \in 1..Len(h) : h[a].kind = "setItem"}

\* C11: the high score never decreases; it is the maximum of the value
\* loaded at startup and the final scores of the sessions finished so far;
\* localStorage.setItem is called only by a game-over whose final score is
\* strictly above the high score before it, and the stored value (0 when
\* absent) equals the in-memory high score.
C11_HighScoreIsMax ==
  /\ [](highScore = best /\ StoredNumber = highScore)
  /\ [][ /\ highScore' >= highScore
         /\ (SetItems(hits') # {} \/ stored' # stored) =>
              /\ state = "playing" /\ state' = "gameover"
              /\ score' > highScore
              /\ stored' = score'
       ]_vars

\* a later session ended below the record an earlier session had set
C11_Witness ==
  /\ state = "gameover" /\ last.op = "frame" /\ last.from = "playing"
  /\ clicks >= 2 /\ SetItems(hits) = {}
  /\ score < highScore /\ stored = highScore /\ highScore \notin LoadedSet

StatedOrder == << "input", "kinematics", "streaming", "spawn", "collision",
                 "cameraFX", "presentation" >>

\* C12: a playing frame advances each component once, in the order
\* input -> kinematics -> streaming -> spawn -> collision -> camera/FX ->
\* presentation: the steering input is read before the vehicle is moved, and
\* streaming and spawning come before the frame's collision detection.
C12_FrameOrder ==
  (last.op = "frame" /\ last.from = "playing") => steps = StatedOrder

\* C13: the reveal timer of gameOver() is never cancelled: every game-over
\* adds a pending timer, a timer leaves the pending list only by running,
\* start and restart leave the list as it is, a pending timer eventually
\* runs, and its run hides the HUD and shows the game-over view in whatever
\* session state it finds.
C13_RevealAlwaysFires ==
  /\ [][ /\ (state = "playing" /\ state' = "gameover") =>
              Len(timers') = Len(timers) + 1
         /\ last'.op \in {"start", "restart"} => timers' = timers
         /\ Len(timers') < Len(timers) =>
              /\ last'.op = "reveal" /\ timers' = Tail(timers)
              /\ ui'.hud = "none" /\ ui'.gameOverEl = "flex"
              /\ state' = state
       ]_vars
  /\ \A n \in 1..(TimerSessions + 1) : (Len(timers) = n) ~> (Len(timers) < n)

\* restartGame() ran before the timer: the game-over view covers a session
\* that is playing
C13_Witness ==
  /\ state = "playing" /\ last.op = "reveal"
  /\ clicks = 2 /\ timers = << >>
  /\ ui.hud = "none" /\ ui.gameOverEl = "flex"

\* the crash shake is above the 0.01 cut-off
Shaking == cameraShake # NoShake /\ cameraShake < ShakeDecays

\* C14: once a collision has set the crash shake, every later frame, in
\* whatever session state, multiplies it by 0.9 while it is above the 0.01
\* cut-off, and a session begun by restartGame() starts with no crash shake
\* above the cut-off.
C14_ShakeDecaysEveryFrame ==
  /\ [][ (Shaking /\ last'.op = "frame" /\ ~Collided(hits')) =>
            cameraShake' = cameraShake + 1 ]_vars
  /\ [](last.op = "restart" => ~Shaking)

\* MAX_SPEED * 0.05: 10 world units
MaxFrameMove == MAX_SPEED * DeltaCap * MoveScale

\* C15: a playing frame moves the vehicle forward, and adds to the distance,
\* speed * dt, with speed the speed state the frame leaves and dt the clamped
\* frame time; a frame never moves it more than MAX_SPEED * 0.05 = 10 units,
\* a boost running or not.
C15_MoveIsSpeedTimesDelta ==
  state = "playing" =>
    \A dt \in SessionDeltas, st \in SteerSet :
      LET g == Update(G, dt, st)
          moved == vehicle.z - g.vehicle.z
      IN  /\ moved = g.speed * CapDelta(dt) * MoveScale
          /\ g.distance - distance = moved
          /\ moved <= MaxFrameMove

\* C16: at the end of every frame a combo counter above 0 has a combo timer
\* above 0; once 2.0 s of clamped playing frame time have passed since the
\* last near-miss the counter is 0; a frame with a near-miss leaves the timer
\* at 2.0 s.
C16_ComboExpires ==
  /\ comboCount > 0 => comboTimer > 0
  /\ sinceNM >= ComboWindow => comboCount = 0
  /\ (last.op = "frame" /\ NearMissCount(hits) > 0) => comboTimer = ComboWindow

\* a combo on its last 0.05 s: the next capped frame ends it
C16_Witness ==
  /\ state = "playing" /\ last.op = "frame"
  /\ comboCount > 0 /\ comboTimer = DeltaCap
  /\ sinceNM = ComboWindow - DeltaCap

ObstacleEvents(h) == {a \in 1..Len(h) : h[a].kind \in {"nearmiss", "collision"}}
SamePlace(a, b) == a.x = b.x /\ a.z = b.z
\* every entity of list new at the place of a cleared entity of old is cleared
StaysCleared(old, new) ==
  \A i \in 1..Len(old), j \in 1..Len(new) :
    (SamePlace(old[i], new[j]) /\ ~old[i].active) => ~new[j].active

\* C17: a frame raises events (near-miss, collision, pickup) only for
\* entities whose active flag was set when the frame began, at most one per
\* entity; the near-miss or pickup clears the flag, and a cleared flag stays
\* cleared for as long as the entity is in its list: so an obstacle raises
\* at most one near-miss and no collision after it, and a pad one pickup.
C17_ClearedEntityIsSilent ==
  [][ last'.op = "frame" =>
        /\ \A a \in ObstacleEvents(hits') :
             /\ world.obstacles[hits'[a].i].active
             /\ \A b \in ObstacleEvents(hits') : hits'[b].i = hits'[a].i => b = a
             /\ hits'[a].kind = "nearmiss" =>
                  \A j \in 1..Len(world'.obstacles) :
                    SamePlace(world.obstacles[hits'[a].i], world'.obstacles[j])
                      => ~world'.obstacles[j].active
        /\ \A a \in 1..Len(picks') :
             /\ world.boostPads[picks'[a].i].active
             /\ \A b \in 1..Len(picks') : picks'[b].i = picks'[a].i => b = a
             /\ \A j \in 1..Len(world'.boostPads) :
                  SamePlace(world.boostPads[picks'[a].i], world'.boostPads[j])
                    => ~world'.boostPads[j].active
        /\ StaysCleared(world.obstacles, world'.obstacles)
        /\ StaysCleared(world.boostPads, world'.boostPads)
    ]_vars

\* the vehicle has steered into an obstacle it near-missed the frame before:
\* it is inside the collision rectangle of the cleared obstacle and the
\* frame raised no event
C17_Witness ==
  /\ state = "playing" /\ last.op = "frame" /\ hits = << >> /\ picks = << >>
  /\ \E i \in 1..Len(world.obstacles) :
       /\ ~world.obstacles[i].active
       /\ IsCollision(Abs(vehicle.x - world.obstacles[i].x),
                      Abs(vehicle.z - world.obstacles[i].z))

\* C18: in every state -STEER_LIMIT <= x <= STEER_LIMIT; the steering input
\* of a frame changes x only: the forward position, the distance and the
\* speed the frame leaves are the same for every steering input.
C18_LateralWithinLimit ==
  /\ -STEER_LIMIT <= vehicle.x /\ vehicle.x <= STEER_LIMIT
  /\ state = "playing" =>
       \A dt \in DeltaSet, st \in SteerAll :
         LET g == Update(G, dt, st)
             n == Update(G, dt, 0)
         IN  /\ g.vehicle.z = n.vehicle.z
             /\ g.distance = n.distance /\ g.speed = n.speed

\* held against the left limit: the frame asked for more than the clamp gave
C18_Witness ==
  /\ state = "playing" /\ last.op = "frame"
  /\ vehicle.x = -STEER_LIMIT
  /\ SteerNoClamp(vehicle.x, -SteerUnit, DeltaCap) < -STEER_LIMIT
  /\ Update(G, DeltaCap, -SteerUnit).vehicle.x = -STEER_LIMIT

\* C19: while the session is playing the score never decreases from one
\* frame to the next, and at game-over the score includes, on top of the
\* distance travelled, every near-miss bonus awarded during the session.
C19_BonusRetained ==
  /\ [][ (state = "playing" /\ state' = "playing" /\ last'.op = "frame") =>
            score' >= score ]_vars
  /\ [](state = "gameover" => score >= Floor(distance, PosUnit) + earned)

\* C20: a playing frame in which the vehicle's z crosses the z of an active
\* obstacle, with the lateral distance below COLLISION_DISTANCE before and
\* after the frame, raises a collision: the session is in game-over after it.
C20_NoTunnelling ==
  [][ (state = "playing" /\ last'.op = "frame") =>
        \A i \in 1..Len(world.obstacles) :
          LET o == world.obstacles[i]
          IN  ( /\ o.active
                /\ vehicle.z > o.z /\ vehicle'.z < o.z
                /\ Abs(vehicle.x - o.x) < COLLISION_DISTANCE
                /\ Abs(vehicle'.x - o.x) < COLLISION_DISTANCE )
              => state' = "gameover"
    ]_vars

\* a teardown that stops and clears the node it was scheduled for
TeardownOwnNode(a, t) ==
  IF t.kind = "engine"
  THEN [a EXCEPT !.engineOn = @ \ {t.of},
                 !.engineNodes = IF @ = t.of THEN NoNodes ELSE @]
  ELSE [a EXCEPT !.windOn = @ \ {t.of},
                 !.windNode = IF @ = t.of THEN NoNodes ELSE @]

\* C21: a teardown callback of stopEngine() touches only the engine and wind
\* nodes that were current when it was scheduled: nodes made by a later
\* startEngine() are neither stopped nor cleared; so whenever the session is
\* playing with the audio initialised, the engine node set is present and
\* sounding.
C21_TeardownSparesNewNodes ==
  /\ [][ last'.op = "teardown" =>
            audio' = TeardownOwnNode(audio, Head(atimers)) ]_vars
  /\ []((state = "playing" /\ audio.initialized) =>
          (audio.engineNodes # NoNodes /\ audio.engineNodes \in audio.engineOn))

\* a live chunk (in the list and in the scene) of w spans the position z
Covered(w, z) ==
  \E i \in 1..Len(w.chunks) :
    /\ w.chunks[i] \in w.scene
    /\ w.chunks[i] - CHUNK_LENGTH <= z /\ z <= w.chunks[i]

\* C22: in the first playing frame after startGame() left the menu, however
\* long the menu fly-through ran, a live chunk covers the start position
\* z = 0 of the vehicle.
C22_StartChunkLive ==
  [][ (last.op = "start" /\ last.from = "menu" /\ last'.op = "frame")
        => Covered(world', 0) ]_vars
====
